---- MODULE Spec2Model ----
(***************************************************************************)
(* The App component of src/App.tsx as a state machine: the four useState  *)
(* fields, the device position requests and the weather fetches that are   *)
(* in flight, and one action per handler or callback.  JavaScript runs     *)
(* each handler and each promise continuation to completion, so every      *)
(* action is one synchronous run of the code between two awaits.           *)
(*                                                                         *)
(* Latitudes and longitudes are integers in units of 1/10000 degree.       *)
(***************************************************************************)
EXTENDS Integers, Sequences, FiniteSets, TLC

VARIABLES
  weather,          \* useState<WeatherData | null>(null)
  loading,          \* useState(true)
  error,            \* useState<string | null>(null)
  currentLocation,  \* useState<string>('')
  hasGeo,           \* 'geolocation' in navigator
  mounted,          \* the mount effect has run
  posPending,       \* getCurrentPosition calls whose callback has not run yet
  fetches,          \* getWeatherByLocation promises not settled yet
  nextId,           \* identity of the next promise
  last,             \* history: the handler or callback that ran last
  origin,           \* history: origin[id] is the handler that issued fetch id
  hist              \* history: the settled fetches, in the order they settled

vars == <<weather, loading, error, currentLocation, hasGeo, mounted,
          posPending, fetches, nextId, last, origin, hist>>

\* ------------------------------------------------------------------ bounds

\* Requests (position requests and fetches) the user and the mount may start.
MaxRequests == 3

\* ------------------------------------------------------- program constants

DefaultLat == 407128
DefaultLon == -740060

NoWeather == [null |-> TRUE]
NoError == "null"
FetchErrorMessage == "Failed to fetch weather data. Please try again."

\* ------------------------------------------------------------- environment

\* Positions the device may report (position.coords).
DevicePositions == { [latitude |-> 515074, longitude |-> -1278] }

\* Suggestions LocationSearch may hand to onLocationSelect.
Suggestions ==
  { [name |-> "Paris", country |-> "FR", lat |-> 488566, lon |-> 23522],
    [name |-> "Tokyo", country |-> "JP", lat |-> 356762, lon |-> 1396503] }

\* Locations the provider may name in a response.  The provider answers with
\* the coordinates of the place it resolved: they may be the ones asked for
\* (London, for the device's position) or not (New York, for the default).
ProviderLocations ==
  { [name |-> "New York", country |-> "US", lat |-> 407143, lon |-> -740060],
    [name |-> "London", country |-> "GB", lat |-> 515074, lon |-> -1278] }

Conditions == {"Clear", "Rain"}

\* The values getWeatherByLocation may resolve to.
WeatherDatas ==
  { [location |-> l, current |-> [condition |-> c]] :
      l \in ProviderLocations, c \in Conditions }

\* ------------------------------------------------------------------- views

\* Which of the three returns of the render function is taken.
View ==
  IF loading THEN "loading"
  ELSE IF error # NoError /\ weather = NoWeather THEN "error"
  ELSE "main"

\* `${weatherData.location.name}, ${weatherData.location.country}`
LocationLabel(d) == <<d.location.name, ", ", d.location.country>>

\* Requests started so far that are still counted against the bound.
Started == (nextId - 1) + posPending

\* ------------------------------------------------------------------ fetch

\* fetchWeatherData that also resets the held data before the request.
fetchWeatherData_ResetsData(lat, lon) ==
  /\ loading' = TRUE
  /\ error' = NoError
  /\ weather' = NoWeather
  /\ currentLocation' = <<>>
  /\ fetches' = fetches \cup {[id |-> nextId, lat |-> lat, lon |-> lon]}
  /\ nextId' = nextId + 1

\* fetchWeatherData up to its await: the two setters and the request.
fetchWeatherData(lat, lon) ==
  /\ loading' = TRUE
  /\ error' = NoError
  /\ fetches' = fetches \cup {[id |-> nextId, lat |-> lat, lon |-> lon]}
  /\ nextId' = nextId + 1
  /\ UNCHANGED <<weather, currentLocation>>

\* FetchResolve that updates the held object in place: only its current
\* conditions are taken from the response, the location is kept.
FetchResolve_MergesIntoHeld(f, d) ==
  /\ f \in fetches
  /\ weather' = IF weather = NoWeather
                  THEN d
                  ELSE [weather EXCEPT !.current = d.current]
  /\ currentLocation' = LocationLabel(d)
  /\ loading' = FALSE
  /\ fetches' = fetches \ {f}
  /\ last' = [op |-> "resolve", id |-> f.id]
  /\ hist' = Append(hist, [id |-> f.id, lat |-> f.lat, lon |-> f.lon,
                           ok |-> TRUE, data |-> d,
                           pending |-> {g.id : g \in fetches \ {f}}])
  /\ UNCHANGED <<error, hasGeo, mounted, posPending, nextId, origin>>

\* The continuation after the await when the promise resolves, then finally.
FetchResolve(f, d) ==
  /\ f \in fetches
  /\ weather' = d
  /\ currentLocation' = LocationLabel(d)
  /\ loading' = FALSE
  /\ fetches' = fetches \ {f}
  /\ last' = [op |-> "resolve", id |-> f.id]
  /\ hist' = Append(hist, [id |-> f.id, lat |-> f.lat, lon |-> f.lon,
                           ok |-> TRUE, data |-> d,
                           pending |-> {g.id : g \in fetches \ {f}}])
  /\ UNCHANGED <<error, hasGeo, mounted, posPending, nextId, origin>>

\* FetchReject with a catch block that also drops the held data.
FetchReject_DropsData(f) ==
  /\ f \in fetches
  /\ error' = FetchErrorMessage
  /\ weather' = NoWeather
  /\ currentLocation' = <<>>
  /\ loading' = FALSE
  /\ fetches' = fetches \ {f}
  /\ last' = [op |-> "reject", id |-> f.id]
  /\ hist' = Append(hist, [id |-> f.id, lat |-> f.lat, lon |-> f.lon,
                           ok |-> FALSE, data |-> NoWeather,
                           pending |-> {g.id : g \in fetches \ {f}}])
  /\ UNCHANGED <<hasGeo, mounted, posPending, nextId, origin>>

\* FetchReject with a catch block that only logs: error is not set.
FetchReject_OnlyLogs(f) ==
  /\ f \in fetches
  /\ loading' = FALSE
  /\ fetches' = fetches \ {f}
  /\ last' = [op |-> "reject", id |-> f.id]
  /\ hist' = Append(hist, [id |-> f.id, lat |-> f.lat, lon |-> f.lon,
                           ok |-> FALSE, data |-> NoWeather,
                           pending |-> {g.id : g \in fetches \ {f}}])
  /\ UNCHANGED <<weather, currentLocation, error, hasGeo, mounted,
                 posPending, nextId, origin>>

\* FetchReject without the finally block: loading is left as it was.
FetchReject_NoFinally(f) ==
  /\ f \in fetches
  /\ error' = FetchErrorMessage
  /\ fetches' = fetches \ {f}
  /\ last' = [op |-> "reject", id |-> f.id]
  /\ hist' = Append(hist, [id |-> f.id, lat |-> f.lat, lon |-> f.lon,
                           ok |-> FALSE, data |-> NoWeather,
                           pending |-> {g.id : g \in fetches \ {f}}])
  /\ UNCHANGED <<weather, currentLocation, loading, hasGeo, mounted,
                 posPending, nextId, origin>>

\* The catch block when the promise rejects, then finally.
FetchReject(f) ==
  /\ f \in fetches
  /\ error' = FetchErrorMessage
  /\ loading' = FALSE
  /\ fetches' = fetches \ {f}
  /\ last' = [op |-> "reject", id |-> f.id]
  /\ hist' = Append(hist, [id |-> f.id, lat |-> f.lat, lon |-> f.lon,
                           ok |-> FALSE, data |-> NoWeather,
                           pending |-> {g.id : g \in fetches \ {f}}])
  /\ UNCHANGED <<weather, currentLocation, hasGeo, mounted, posPending, nextId, origin>>

\* ------------------------------------------------------------ geolocation

requestLocation ==
  IF hasGeo
    THEN /\ posPending' = posPending + 1
         /\ UNCHANGED <<weather, loading, error, currentLocation, fetches, nextId>>
    ELSE /\ fetchWeatherData(DefaultLat, DefaultLon)
         /\ UNCHANGED posPending

\* The success callback of getCurrentPosition.
PositionSuccess(p) ==
  /\ posPending > 0
  /\ posPending' = posPending - 1
  /\ fetchWeatherData(p.latitude, p.longitude)
  /\ last' = [op |-> "positionSuccess", id |-> nextId]
  /\ origin' = Append(origin, "positionSuccess")
  /\ UNCHANGED <<hasGeo, mounted, hist>>

\* PositionError with the fallback's latitude and longitude exchanged.
PositionError_SwappedFallback ==
  /\ posPending > 0
  /\ posPending' = posPending - 1
  /\ fetchWeatherData(DefaultLon, DefaultLat)
  /\ last' = [op |-> "positionError", id |-> nextId]
  /\ origin' = Append(origin, "positionError")
  /\ UNCHANGED <<hasGeo, mounted, hist>>

\* PositionError that reports the geolocation error instead of falling back.
PositionError_ReportsError ==
  /\ posPending > 0
  /\ posPending' = posPending - 1
  /\ error' = FetchErrorMessage
  /\ loading' = FALSE
  /\ last' = [op |-> "positionError", id |-> 0]
  /\ UNCHANGED <<weather, currentLocation, fetches, nextId, origin,
                 hasGeo, mounted, hist>>

\* The error callback of getCurrentPosition.
PositionError ==
  /\ posPending > 0
  /\ posPending' = posPending - 1
  /\ fetchWeatherData(DefaultLat, DefaultLon)
  /\ last' = [op |-> "positionError", id |-> nextId]
  /\ origin' = Append(origin, "positionError")
  /\ UNCHANGED <<hasGeo, mounted, hist>>

\* ---------------------------------------------------------- user and mount

\* useEffect(() => { requestLocation(); }, [])
Mount ==
  /\ ~mounted
  /\ mounted' = TRUE
  /\ requestLocation
  /\ last' = [op |-> "mount", id |-> IF hasGeo THEN 0 ELSE nextId]
  /\ origin' = IF hasGeo THEN origin ELSE Append(origin, "mount")
  /\ UNCHANGED <<hasGeo, hist>>

\* The "Use current location" button of the main view.
UseCurrentLocation ==
  /\ mounted
  /\ View = "main"
  /\ Started < MaxRequests
  /\ requestLocation
  /\ last' = [op |-> "useCurrentLocation", id |-> IF hasGeo THEN 0 ELSE nextId]
  /\ origin' = IF hasGeo THEN origin ELSE Append(origin, "useCurrentLocation")
  /\ UNCHANGED <<hasGeo, mounted, hist>>

\* TryAgain wired to a handler that needs held data, so that it does nothing.
TryAgain_Refreshes ==
  /\ mounted
  /\ View = "error"
  /\ Started < MaxRequests
  /\ last' = [op |-> "tryAgain", id |-> 0]
  /\ UNCHANGED <<weather, loading, error, currentLocation, fetches, nextId,
                 posPending, origin, hasGeo, mounted, hist>>

\* The "Try Again" button of the error view.
TryAgain ==
  /\ mounted
  /\ View = "error"
  /\ Started < MaxRequests
  /\ requestLocation
  /\ last' = [op |-> "tryAgain", id |-> IF hasGeo THEN 0 ELSE nextId]
  /\ origin' = IF hasGeo THEN origin ELSE Append(origin, "tryAgain")
  /\ UNCHANGED <<hasGeo, mounted, hist>>

\* handleLocationSelect with lat and lon exchanged in the call.
handleLocationSelect_Swapped(location) ==
  /\ mounted
  /\ View = "main"
  /\ Started < MaxRequests
  /\ fetchWeatherData(location.lon, location.lat)
  /\ last' = [op |-> "select", id |-> nextId]
  /\ origin' = Append(origin, "select")
  /\ UNCHANGED <<hasGeo, mounted, posPending, hist>>

\* onLocationSelect of LocationSearch, rendered in the main view.
handleLocationSelect(location) ==
  /\ mounted
  /\ View = "main"
  /\ Started < MaxRequests
  /\ fetchWeatherData(location.lat, location.lon)
  /\ last' = [op |-> "select", id |-> nextId]
  /\ origin' = Append(origin, "select")
  /\ UNCHANGED <<hasGeo, mounted, posPending, hist>>

\* handleRefresh that asks for the default location instead of the held one.
handleRefresh_DefaultCoords ==
  /\ mounted
  /\ View = "main"
  /\ ~loading
  /\ Started < MaxRequests
  /\ IF weather # NoWeather
       THEN fetchWeatherData(DefaultLat, DefaultLon)
       ELSE UNCHANGED <<weather, loading, error, currentLocation, fetches, nextId>>
  /\ last' = [op |-> "refresh", id |-> IF weather # NoWeather THEN nextId ELSE 0]
  /\ origin' = IF weather # NoWeather THEN Append(origin, "refresh") ELSE origin
  /\ UNCHANGED <<hasGeo, mounted, posPending, hist>>

\* handleRefresh with its button rendered, and enabled, in every view.
handleRefresh_EveryView ==
  /\ mounted
  /\ Started < MaxRequests
  /\ IF weather # NoWeather
       THEN fetchWeatherData(weather.location.lat, weather.location.lon)
       ELSE UNCHANGED <<weather, loading, error, currentLocation, fetches, nextId>>
  /\ last' = [op |-> "refresh", id |-> IF weather # NoWeather THEN nextId ELSE 0]
  /\ origin' = IF weather # NoWeather THEN Append(origin, "refresh") ELSE origin
  /\ UNCHANGED <<hasGeo, mounted, posPending, hist>>

\* The refresh button of the main view (disabled while loading).
handleRefresh ==
  /\ mounted
  /\ View = "main"
  /\ ~loading
  /\ Started < MaxRequests
  /\ IF weather # NoWeather
       THEN fetchWeatherData(weather.location.lat, weather.location.lon)
       ELSE UNCHANGED <<weather, loading, error, currentLocation, fetches, nextId>>
  /\ last' = [op |-> "refresh", id |-> IF weather # NoWeather THEN nextId ELSE 0]
  /\ origin' = IF weather # NoWeather THEN Append(origin, "refresh") ELSE origin
  /\ UNCHANGED <<hasGeo, mounted, posPending, hist>>

\* ---------------------------------------------------------- specification

Init ==
  /\ weather = NoWeather
  /\ loading = TRUE
  /\ error = NoError
  /\ currentLocation = <<>>
  /\ hasGeo \in BOOLEAN
  /\ mounted = FALSE
  /\ posPending = 0
  /\ fetches = {}
  /\ nextId = 1
  /\ last = [op |-> "init", id |-> 0]
  /\ origin = <<>>
  /\ hist = <<>>

Next ==
  \/ Mount
  \/ UseCurrentLocation
  \/ TryAgain
  \/ \E s \in Suggestions : handleLocationSelect(s)
  \/ handleRefresh
  \/ \E p \in DevicePositions : PositionSuccess(p)
  \/ PositionError
  \/ \E f \in fetches, d \in WeatherDatas : FetchResolve(f, d)
  \/ \E f \in fetches : FetchReject(f)

Spec == Init /\ [][Next]_vars

\* A position callback runs; a fetch settles.
PositionCallback == (\E p \in DevicePositions : PositionSuccess(p)) \/ PositionError
Settle == \E f \in fetches : (\E d \in WeatherDatas : FetchResolve(f, d)) \/ FetchReject(f)

\* The behaviours in which the mount effect runs, every position request
\* calls back and every fetch settles.  The user is never obliged to act.
FairSpec ==
  /\ Spec
  /\ WF_vars(Mount)
  /\ WF_vars(PositionCallback)
  /\ WF_vars(Settle)

TypeOK ==
  /\ weather \in WeatherDatas \cup {NoWeather}
  /\ loading \in BOOLEAN
  /\ error \in {NoError, FetchErrorMessage}
  /\ posPending \in 0..MaxRequests
  /\ nextId \in 1..(MaxRequests + 1)
  /\ Cardinality(fetches) + posPending <= MaxRequests

\* ------------------------------------------------------------------ claims

\* The fetch that settled last, and the states of the controller.
LastSettled == hist[Len(hist)]
Ready == weather # NoWeather /\ ~loading /\ error = NoError

\* C1: right after a fetch resolves, the controller is ready: the resolved
\* WeatherData is the held one, loading is false and error is null, also when
\* other fetches were issued or settled while it was in flight.
C1_SuccessIsReady ==
  last.op = "resolve" =>
    /\ weather = LastSettled.data
    /\ loading = FALSE
    /\ error = NoError

\* C2: a rejected fetch changes neither the held WeatherData nor the location
\* label, and when data was held the main (data) view is the one shown after.
C2_FailureKeepsData ==
  [][ last'.op = "reject" =>
        /\ weather' = weather
        /\ currentLocation' = currentLocation
        /\ loading' = FALSE
        /\ (weather # NoWeather => View' = "main") ]_vars

\* C2 witness: a fetch was rejected while data was held; the data is shown.
C2_Witness ==
  /\ last.op = "reject"
  /\ weather # NoWeather
  /\ error = FetchErrorMessage
  /\ View = "main"

\* The one fetch a step issues for (lat, lon): a new promise, and no other change
\* to the fetches in flight.
Issues(lat, lon) ==
  /\ \A g \in fetches : g.id # nextId
  /\ fetches' = fetches \cup {[id |-> nextId, lat |-> lat, lon |-> lon]}

\* C3 as stated: whenever the fetch started by the geolocation error callback
\* has settled, the controller is ready with the default coordinates.
C3_GeolocationErrorEndsReady ==
  (last.op \in {"resolve", "reject"} /\ origin[last.id] = "positionError") =>
    /\ LastSettled.lat = DefaultLat
    /\ LastSettled.lon = DefaultLon
    /\ Ready

\* C3 amended: the geolocation error callback issues exactly one fetch for
\* (40.7128, -74.0060) and leaves error null; when that fetch resolves, its
\* WeatherData is held and the main view, not the error view, is shown; when
\* it rejects, error is set as for any rejected fetch.
C3_GeolocationFallback ==
  [][ /\ last'.op = "positionError" =>
            /\ Issues(DefaultLat, DefaultLon)
            /\ last'.id = nextId
            /\ error' = NoError
            /\ loading' = TRUE
      /\ (last'.op = "resolve" /\ origin[last'.id] = "positionError") =>
            /\ LastSettled'.lat = DefaultLat
            /\ LastSettled'.lon = DefaultLon
            /\ weather' = LastSettled'.data
            /\ View' = "main"
      /\ (last'.op = "reject" /\ origin[last'.id] = "positionError") =>
            error' = FetchErrorMessage ]_vars

\* C3 witness: the fallback fetch of a geolocation error resolved, and the
\* controller is ready.
C3_Witness ==
  /\ last.op = "resolve"
  /\ origin[last.id] = "positionError"
  /\ LastSettled.lat = DefaultLat
  /\ LastSettled.lon = DefaultLon
  /\ Ready

\* C4: a refresh issues exactly one fetch, for the latitude and longitude
\* stored in the held WeatherData.
C4_RefreshUsesHeldCoordinates ==
  [][ last'.op = "refresh" =>
        /\ weather # NoWeather
        /\ Issues(weather.location.lat, weather.location.lon)
        /\ last'.id = nextId ]_vars

\* C4 witness: a refresh from ready has issued its fetch for the held
\* coordinates, which are not the ones that were requested to obtain the data.
C4_Witness ==
  /\ last.op = "refresh"
  /\ weather # NoWeather
  /\ \E f \in fetches :
        /\ f.id = last.id
        /\ f.lat = weather.location.lat
        /\ f.lon = weather.location.lon
  /\ LastSettled.ok
  /\ LastSettled.data = weather
  /\ LastSettled.lat # weather.location.lat

\* C5 as stated: a refresh starts a fetch only from ready (data held, not
\* loading, error null).
C5_RefreshOnlyFromReady ==
  [][ (last'.op = "refresh" /\ fetches' # fetches) => Ready ]_vars

\* C5 amended: a refresh happens only in the main view with data held and
\* loading false, whether or not error is null, and then issues one fetch for
\* the held coordinates; in the loading view and in the error view there is
\* no refresh.
C5_RefreshOnlyFromMainView ==
  [][ last'.op = "refresh" =>
        /\ View = "main"
        /\ weather # NoWeather
        /\ loading = FALSE
        /\ Issues(weather.location.lat, weather.location.lon) ]_vars

\* C5 witness: a refresh has issued a fetch from the main view while error was
\* still set by a rejected fetch (stale data).
C5_Witness ==
  /\ last.op = "refresh"
  /\ \E f \in fetches : f.id = last.id
  /\ Len(hist) > 0
  /\ ~LastSettled.ok
  /\ LastSettled.id < last.id
  /\ LastSettled.pending = {}
  /\ weather # NoWeather

\* C6: a fetch rejected while no WeatherData is held leaves the error view
\* shown (loading false, error set), and Try Again, available in that view,
\* starts a new attempt: a position request, or at once the fetch for the
\* default location when there is no geolocation.
C6_ErrorViewAndRetry ==
  [][ /\ (last'.op = "reject" /\ weather = NoWeather) =>
            /\ loading' = FALSE
            /\ error' = FetchErrorMessage
            /\ View' = "error"
      /\ last'.op = "tryAgain" =>
            /\ View = "error"
            /\ IF hasGeo
                 THEN posPending' = posPending + 1 /\ fetches' = fetches
                 ELSE posPending' = posPending /\ Issues(DefaultLat, DefaultLon) ]_vars

\* C6 witness: the first fetch was rejected with no data held, and the attempt
\* started from the error view brought the controller to ready.
C6_Witness ==
  /\ Len(hist) = 2
  /\ ~hist[1].ok
  /\ hist[2].ok
  /\ last.op = "resolve"
  /\ Ready

\* C7: every position request ends in exactly one fetch: for the device's
\* coordinates on success, for (40.7128, -74.0060) on error, and where there
\* is no geolocation requestLocation issues that fetch itself; error becomes
\* non-null only when a fetch is rejected.
C7_PositionRequestToOneFetch ==
  [][ /\ last'.op = "positionSuccess" =>
            /\ posPending' = posPending - 1
            /\ last'.id = nextId
            /\ \E p \in DevicePositions : Issues(p.latitude, p.longitude)
      /\ last'.op = "positionError" =>
            /\ posPending' = posPending - 1
            /\ last'.id = nextId
            /\ Issues(DefaultLat, DefaultLon)
      /\ last'.op \in {"mount", "useCurrentLocation", "tryAgain"} =>
            IF hasGeo
              THEN posPending' = posPending + 1 /\ fetches' = fetches
              ELSE posPending' = posPending /\ Issues(DefaultLat, DefaultLon)
      /\ posPending' < posPending =>
            last'.op \in {"positionSuccess", "positionError"}
      /\ (error' # NoError /\ error' # error) => last'.op = "reject" ]_vars

\* C7 witness: a geolocation error has just issued the fallback fetch while a
\* fetch for the device's coordinates is in flight too, and error is null.
C7_Witness ==
  /\ last.op = "positionError"
  /\ error = NoError
  /\ \E f \in fetches :
        f.id = last.id /\ f.lat = DefaultLat /\ f.lon = DefaultLon
  /\ \E g \in fetches, p \in DevicePositions :
        /\ origin[g.id] = "positionSuccess"
        /\ g.lat = p.latitude
        /\ g.lon = p.longitude

\* C8: while a position request is pending, loading is true.
C8_LoadingWhilePositionPending ==
  posPending > 0 => loading = TRUE

LastTwoOverlapped ==
  /\ Len(hist) >= 2
  /\ hist[Len(hist)].id \in hist[Len(hist) - 1].pending

\* C10: when two overlapping fetches have both settled and nothing else is
\* outstanding, the shared state is the one of the fetch that settled last:
\* ready with its WeatherData if it resolved, error set if it was rejected,
\* loading false in both cases.
C10_LastSettledWins ==
  (LastTwoOverlapped /\ fetches = {} /\ posPending = 0) =>
    /\ loading = FALSE
    /\ IF LastSettled.ok
         THEN /\ weather = LastSettled.data
              /\ currentLocation = LocationLabel(LastSettled.data)
              /\ error = NoError
         ELSE error = FetchErrorMessage

\* C11: no timeout ends a fetch: for as long as a fetch is outstanding,
\* loading is true.
C11_LoadingWhileFetchOutstanding ==
  fetches # {} => loading = TRUE

\* C12: every fetch that settles, resolved or rejected, sets loading to
\* false; and when every position request calls back and every fetch settles,
\* a controller that is loading eventually is not: it shows the main view or
\* the error view, where the user can act.
C12_AlwaysLeavesLoading ==
  /\ [][ last'.op \in {"resolve", "reject"} => loading' = FALSE ]_vars
  /\ (loading = TRUE) ~> (loading = FALSE /\ View \in {"main", "error"})

\* C12 witness: the only attempt failed, nothing is outstanding, and the
\* controller has left loading for the error view.
C12_Witness ==
  /\ last.op = "reject"
  /\ fetches = {}
  /\ posPending = 0
  /\ weather = NoWeather
  /\ loading = FALSE
  /\ View = "error"

\* The settled fetches that resolved, by their place in hist.
Resolved == {i \in 1..Len(hist) : hist[i].ok}

\* C13: the held WeatherData is null, with an empty label, until a fetch has
\* resolved, and from then on it is exactly the value one fetch resolved to
\* (the one that resolved last), never a mixture, and the label is the
\* "name, country" of that same value, in whatever order fetches settle.
C13_DataReplacedWholesale ==
  IF Resolved = {}
    THEN weather = NoWeather /\ currentLocation = <<>>
    ELSE LET k == CHOOSE i \in Resolved : \A j \in Resolved : j <= i
         IN /\ weather = hist[k].data
            /\ currentLocation = LocationLabel(hist[k].data)

\* C13 witness: two overlapping fetches resolved to different data in the
\* reverse of the order they were issued in; the data and the label held are
\* those of the one that resolved last.
C13_Witness ==
  /\ LastTwoOverlapped
  /\ hist[Len(hist)].ok
  /\ hist[Len(hist) - 1].ok
  /\ hist[Len(hist)].id < hist[Len(hist) - 1].id
  /\ hist[Len(hist)].data.location # hist[Len(hist) - 1].data.location
  /\ weather = hist[Len(hist)].data
  /\ currentLocation = LocationLabel(weather)

\* C14: whenever loading is false, WeatherData is held or error is set; so
\* the main view is rendered only with WeatherData held, and no state shows
\* neither loading, nor data, nor an error.
C14_NeverBlank ==
  /\ loading = FALSE => (weather # NoWeather \/ error # NoError)
  /\ View = "main" => weather # NoWeather

\* C14 witness: loading is false with no data held while a fetch, which
\* cleared error when it was issued, is still in flight: error is set again.
C14_Witness ==
  /\ loading = FALSE
  /\ fetches # {}
  /\ weather = NoWeather
  /\ error = FetchErrorMessage
  /\ last.op = "reject"

\* C15: once WeatherData is held it is never null again, in no step, and the
\* error view is not shown from then on.
C15_DataNeverLost ==
  [][ weather # NoWeather =>
        /\ weather' # NoWeather
        /\ View' # "error" ]_vars

\* C15 witness: after a fetch resolved, two fetches were rejected; the data of
\* the first is still held and the main view is shown with error set.
C15_Witness ==
  /\ Len(hist) = 3
  /\ hist[1].ok
  /\ ~hist[2].ok
  /\ ~hist[3].ok
  /\ weather = hist[1].data
  /\ error = FetchErrorMessage
  /\ View = "main"

====
